---- MODULE Spec2Model ----
(***************************************************************************)
(* A model of import_and_enrich.py: the JSONL record loader, the web      *)
(* session's form submitters and the orchestrator that replays a fixed     *)
(* sequence of form submissions for every patient record.                  *)
(*                                                                         *)
(* A Python value None is modelled by the integer -1 (None); an integer    *)
(* scraped from a page is a natural number, so that Python's truthiness    *)
(* (None and 0 are false) is Truthy(x) == x > 0.                           *)
(***************************************************************************)
EXTENDS Integers, Sequences, FiniteSets, TLC

\* ------------------------------------------------------------- bounds
MaxLines == 2      \* lines of the input file
MaxItems == 1      \* entities in each list of a record
MaxId == 1         \* largest identifier the server hands out
MaxLineLen == 2    \* tokens of a line, when the loader is checked alone
MaxLabs == 2       \* lab results of a list, when add_lab_results is checked alone

VARIABLES
    file_exists,   \* filepath.exists()
    lines,         \* the text of the input file: a sequence of lines
    pc,            \* position of __main__
    PATIENTS,      \* the loaded records
    sessions,      \* number of OpenEMRWebSession objects constructed
    logins,        \* number of calls of login()
    cookie,        \* whether the session holds the 'OpenEMR' cookie
    ri,            \* index of the record the main loop is at
    pos,           \* the step of import_patient_with_history that comes next
    pid,           \* local pid of import_patient_with_history
    enc_id,        \* local enc_id of import_patient_with_history
    results,       \* results["success"], results["failed"]
    assigned,      \* history: what create_patient returned, per record
    last,          \* history: the submitter call that finished last
    tally,         \* what the summary printed
    exit_code,     \* status passed to exit()
    call,          \* the session method being executed, or the last one that returned
    wire,          \* the requests sent and not answered yet
    server,        \* the server's side of the session
    enc_made,      \* history: what create_encounter returned last in this record
    submitted,     \* history: the submissions that were reported successful
    lab_data,      \* argument of add_lab_results, when it is checked alone
    form_data      \* the payload add_lab_results posted

vars == <<file_exists, lines, pc, PATIENTS, sessions, logins, cookie, ri, pos,
          pid, enc_id, results, assigned, last, tally, exit_code,
          call, wire, server, enc_made, submitted, lab_data, form_data>>

\* what only the request-level specifications change
ReqVars == <<call, wire, server, enc_made, submitted, lab_data, form_data>>

None == -1
Truthy(x) == x > 0

\* ------------------------------------------------------------- input records
\* A record is the dict json.loads returns. name = "" stands for a dict
\* without the 'fname'/'lname' keys; a list of problems, medications or
\* allergies is the sequence of "this item has a 'title' key"; history and
\* insurance say whether the dict is non-empty; an encounter says which of
\* its 'date', 'vitals' and 'labs' keys are present.
Rec(nm, pr, me, al, hi, ins, en) ==
    [name |-> nm, problems |-> pr, medications |-> me, allergies |-> al,
     history |-> hi, insurance |-> ins, encounters |-> en]

Enc(d, v, l) == [date |-> d, vitals |-> v, labs |-> l]

\* n items, all with a title unless ~good, when the last one has none
Titles(n, good) == [j \in 1..n |-> good \/ j < n]

\* The records the input file is written from: one without a name, one with
\* demographics only, one with every kind of entity, one whose last
\* medication has no title, one with a labs-only and vitals-only encounters,
\* one whose second encounter has no date.
Catalogue ==
    << Rec("", <<>>, <<>>, <<>>, FALSE, FALSE, <<>>),
       Rec("Bob", <<>>, <<>>, <<>>, FALSE, FALSE, <<>>),
       Rec("Ann", Titles(MaxItems, TRUE), Titles(MaxItems, TRUE),
           Titles(MaxItems, TRUE), TRUE, TRUE,
           [j \in 1..MaxItems |-> Enc(TRUE, TRUE, TRUE)]),
       Rec("Cy", Titles(MaxItems, TRUE), Titles(MaxItems, FALSE), <<>>,
           FALSE, TRUE, <<>>),
       Rec("Dee", <<>>, <<>>, Titles(MaxItems, TRUE), TRUE, FALSE,
           <<Enc(TRUE, FALSE, TRUE)>> \o [j \in 1..MaxItems |-> Enc(TRUE, TRUE, FALSE)]),
       Rec("Eve", <<>>, <<>>, <<>>, FALSE, FALSE,
           <<Enc(TRUE, FALSE, FALSE), Enc(FALSE, TRUE, TRUE)>>) >>

\* ------------------------------------------------------------- file text
\* A line is a sequence of tokens: white space, a JSON literal (v names the
\* value it denotes) or anything else.
Tok(t, v) == [t |-> t, v |-> v]
WS == Tok("ws", 0)
Junk == Tok("junk", 0)
Json(v) == Tok("json", v)

SeqsUpTo(S, n) == UNION {[1..k -> S] : k \in 0..n}

MainLines == {<<>>, <<Junk>>} \cup {<<Json(v)>> : v \in 1..Len(Catalogue)}
MainFiles == SeqsUpTo(MainLines, MaxLines)

LoadTokens == {WS, Junk, Json(1), Json(2)}
LoadFiles == SeqsUpTo(SeqsUpTo(LoadTokens, MaxLineLen), MaxLines)

\* ------------------------------------------------------------- record loader
\* line.strip(): drop the white space at both ends
RECURSIVE lstrip(_)
lstrip(line) ==
    IF line # <<>> /\ Head(line) = WS THEN lstrip(Tail(line)) ELSE line

RECURSIVE rstrip(_)
rstrip(line) ==
    IF line # <<>> /\ line[Len(line)] = WS
    THEN rstrip(SubSeq(line, 1, Len(line) - 1))
    ELSE line

strip(line) == rstrip(lstrip(line))

\* json.loads(text) raises JSONDecodeError unless text is one JSON literal
json_decode_error(text) == ~(Len(text) = 1 /\ text[1].t = "json")
json_loads(text) == Catalogue[text[1].v]

\* variant of LoadLoop: the except branch breaks off the loop (break in the
\* place of continue)
RECURSIVE LoadLoopBreak(_, _, _)
LoadLoopBreak(ls, k, patients) ==
    IF k > Len(ls) THEN patients
    ELSE LET line == strip(ls[k]) IN
         IF line = <<>> THEN LoadLoopBreak(ls, k + 1, patients)
         ELSE IF json_decode_error(line) THEN patients
         ELSE LoadLoopBreak(ls, k + 1, Append(patients, json_loads(line)))

\* for line_num, line in enumerate(f, 1): skip an empty line, append what
\* json.loads returns, skip a line it rejects
RECURSIVE LoadLoop(_, _, _)
LoadLoop(ls, k, patients) ==
    IF k > Len(ls) THEN patients
    ELSE LET line == strip(ls[k]) IN
         IF line = <<>> THEN LoadLoop(ls, k + 1, patients)
         ELSE IF json_decode_error(line) THEN LoadLoop(ls, k + 1, patients)
         ELSE LoadLoop(ls, k + 1, Append(patients, json_loads(line)))

load_patients_from_jsonl(exists, ls) ==
    IF ~exists THEN <<>> ELSE LoadLoop(ls, 1, <<>>)

\* ------------------------------------------------------------- network
\* What a request comes back with: an exception ("exc"), or a response with
\* a status; token: the page holds a csrf_token_form field; error: the body
\* holds 'ERROR:'; id: the identifier the body (or URL) shows, if any.
\* NotSent stands for a request the code never gets to.
Resp(s, t, e, i) == [status |-> s, token |-> t, error |-> e, id |-> i]
NotSent == Resp("none", FALSE, FALSE, None)
Exc == Resp("exc", FALSE, FALSE, None)
Ids == {None} \cup 0..MaxId

PlainResponses == {Exc, Resp("200", FALSE, FALSE, None), Resp("500", FALSE, FALSE, None)}
PageResponses == {Exc} \cup {Resp(s, t, FALSE, None) : s \in {"200", "500"}, t \in BOOLEAN}
IdResponses == {Exc, Resp("500", FALSE, FALSE, None)}
                   \cup {Resp("200", FALSE, FALSE, i) : i \in Ids}
PatientSaveResponses == IdResponses \cup {Resp("200", FALSE, TRUE, None)}

\* ------------------------------------------------------------- session
\* login(): page is the GET of the login page, post the login POST; each
\* says whether the server set the 'OpenEMR' cookie. Returns [ret, cookie].
LoginResp(s, c) == [status |-> s, cookie |-> c]
LoginResponses == {LoginResp("exc", FALSE)} \cup {LoginResp("200", c) : c \in BOOLEAN}

login(page, post) ==
    IF page.status = "exc" \/ post.status = "exc"
    THEN [ret |-> FALSE, cookie |-> page.cookie]
    ELSE IF page.cookie \/ post.cookie
         THEN [ret |-> TRUE, cookie |-> TRUE]
         ELSE [ret |-> TRUE, cookie |-> FALSE]

\* get_csrf_token(page_url): TRUE when a token is returned
get_csrf_token(page) == page.status = "200" /\ page.token

set_active_patient(r) == r.status = "200"

set_active_encounter(r) == r.status # "exc"

\* what a submitter call reports: its return value and the number of form
\* POSTs it issued
Out(r, n) == [ret |-> r, posts |-> n]

extract_pid_from_response(post) == post.id

find_patient_by_name(find) ==
    IF find.status = "200" THEN find.id ELSE None

create_patient(form, csrf, post, find) ==
    IF form.status = "exc" THEN Out(None, 0)
    ELSE IF ~get_csrf_token(csrf) THEN Out(None, 0)
    ELSE IF post.status = "exc" THEN Out(None, 1)
    ELSE IF post.status # "200" THEN Out(None, 1)
    ELSE IF post.error THEN Out(None, 1)
    ELSE IF Truthy(extract_pid_from_response(post))
         THEN Out(extract_pid_from_response(post), 1)
    ELSE IF Truthy(find_patient_by_name(find))
         THEN Out(find_patient_by_name(find), 1)
    ELSE Out(None, 1)

\* which of create_patient's requests are issued
CsrfSent(form) == form.status # "exc"
SaveSent(form, csrf) == CsrfSent(form) /\ get_csrf_token(csrf)
FindSent(form, csrf, post) ==
    /\ SaveSent(form, csrf)
    /\ post.status = "200" /\ ~post.error
    /\ ~Truthy(extract_pid_from_response(post))

\* variant of add_problem: the form is posted a second time when the first
\* POST is not answered with 200
submit_with_retry(sap, page, post) ==
    IF ~get_csrf_token(page) THEN Out(FALSE, 0)
    ELSE IF post.status = "200" THEN Out(TRUE, 1)
    ELSE Out(FALSE, 2)

add_medication(sap, page, post) ==
    IF ~get_csrf_token(page) THEN Out(FALSE, 0)
    ELSE IF post.status = "200" THEN Out(TRUE, 1)
    ELSE Out(FALSE, 1)

add_problem(sap, page, post) ==
    IF ~get_csrf_token(page) THEN Out(FALSE, 0)
    ELSE IF post.status = "200" THEN Out(TRUE, 1)
    ELSE Out(FALSE, 1)

add_allergy(sap, page, post) ==
    IF ~get_csrf_token(page) THEN Out(FALSE, 0)
    ELSE IF post.status = "200" THEN Out(TRUE, 1)
    ELSE Out(FALSE, 1)

\* variant of create_encounter: a save answered with 200 and no identifier
\* in the body yields the identifier 0
create_encounter_zero(sap, page, post) ==
    IF ~get_csrf_token(page) THEN Out(None, 0)
    ELSE IF post.status = "200" THEN Out(IF post.id = None THEN 0 ELSE post.id, 1)
    ELSE Out(None, 1)

create_encounter(sap, page, post) ==
    IF ~get_csrf_token(page) THEN Out(None, 0)
    ELSE IF post.status = "200" THEN Out(post.id, 1)
    ELSE Out(None, 1)

\* variant of add_vitals: True for every answer to the POST, whatever its status
add_vitals_any_status(sap, sae, page, post) ==
    IF page.status = "exc" THEN Out(FALSE, 0)
    ELSE IF ~page.token THEN Out(FALSE, 0)
    ELSE IF post.status # "exc" THEN Out(TRUE, 1)
    ELSE Out(FALSE, 1)

\* add_vitals and add_lab_results read the token off the page they fetch
\* themselves, whatever its status
add_vitals(sap, sae, page, post) ==
    IF page.status = "exc" THEN Out(FALSE, 0)
    ELSE IF ~page.token THEN Out(FALSE, 0)
    ELSE IF post.status = "200" THEN Out(TRUE, 1)
    ELSE Out(FALSE, 1)

add_lab_results(sap, sae, page, post) ==
    IF page.status = "exc" THEN Out(FALSE, 0)
    ELSE IF ~page.token THEN Out(FALSE, 0)
    ELSE IF post.status = "200" THEN Out(TRUE, 1)
    ELSE Out(FALSE, 1)

update_history(sap, page, post) ==
    IF ~get_csrf_token(page) THEN Out(FALSE, 0)
    ELSE IF post.status = "200" THEN Out(TRUE, 1)
    ELSE Out(FALSE, 1)

add_insurance(sap, page, post) ==
    IF ~get_csrf_token(page) THEN Out(FALSE, 0)
    ELSE IF post.status = "200" THEN Out(TRUE, 1)
    ELSE Out(FALSE, 1)

\* the POST of a submitter is sent only with a token
PostsAfter(hasToken) == IF hasToken THEN PlainResponses ELSE {NotSent}
IdPostsAfter(hasToken) == IF hasToken THEN IdResponses ELSE {NotSent}

\* ------------------------------------------------------------- outcomes
\* What each submitter call can come to, over everything the network can
\* answer to the requests it sends (a request it never sends is NotSent).
CreatePatientOutcomes ==
    UNION { UNION { UNION { {create_patient(form, csrf, post, find) :
        find \in (IF FindSent(form, csrf, post) THEN IdResponses ELSE {NotSent})} :
        post \in (IF SaveSent(form, csrf) THEN PatientSaveResponses ELSE {NotSent})} :
        csrf \in (IF CsrfSent(form) THEN PageResponses ELSE {NotSent})} :
        form \in PlainResponses}

AddProblemOutcomes ==
    UNION {{add_problem(sap, page, post) : post \in PostsAfter(get_csrf_token(page))} :
           sap \in PlainResponses, page \in PageResponses}

AddMedicationOutcomes ==
    UNION {{add_medication(sap, page, post) : post \in PostsAfter(get_csrf_token(page))} :
           sap \in PlainResponses, page \in PageResponses}

AddAllergyOutcomes ==
    UNION {{add_allergy(sap, page, post) : post \in PostsAfter(get_csrf_token(page))} :
           sap \in PlainResponses, page \in PageResponses}

UpdateHistoryOutcomes ==
    UNION {{update_history(sap, page, post) : post \in PostsAfter(get_csrf_token(page))} :
           sap \in PlainResponses, page \in PageResponses}

AddInsuranceOutcomes ==
    UNION {{add_insurance(sap, page, post) : post \in PostsAfter(get_csrf_token(page))} :
           sap \in PlainResponses, page \in PageResponses}

CreateEncounterOutcomes ==
    UNION {{create_encounter(sap, page, post) : post \in IdPostsAfter(get_csrf_token(page))} :
           sap \in PlainResponses, page \in PageResponses}

AddVitalsOutcomes ==
    UNION {{add_vitals(sap, sae, page, post) : post \in PostsAfter(page.token)} :
           sap \in PlainResponses, sae \in PlainResponses, page \in PageResponses}

AddLabResultsOutcomes ==
    UNION {{add_lab_results(sap, sae, page, post) : post \in PostsAfter(page.token)} :
           sap \in PlainResponses, sae \in PlainResponses, page \in PageResponses}

LoginOutcomes ==
    UNION {{login(page, post) :
              post \in (IF page.status = "exc" THEN {LoginResp("none", FALSE)}
                                               ELSE LoginResponses)} :
           page \in LoginResponses}

\* ------------------------------------------------------------- orchestrator
\* The steps of import_patient_with_history: a group and an index in it.
At(g, i) == [grp |-> g, i |-> i]
PatientStep == At("patient", 1)
Done == At("done", 0)

\* variant of GroupOrder: the medications block stands before the problems
GroupOrderMedsFirst ==
    <<"medications", "problems", "allergies", "history", "insurance", "encounters">>

\* the order of the blocks of import_patient_with_history
GroupOrder ==
    <<"problems", "medications", "allergies", "history", "insurance", "encounters">>

\* len(patient_data.get(g, [])), or 1 for a non-empty history or insurance
Count(rec, g) ==
    CASE g = "problems" -> Len(rec.problems)
      [] g = "medications" -> Len(rec.medications)
      [] g = "allergies" -> Len(rec.allergies)
      [] g = "history" -> IF rec.history THEN 1 ELSE 0
      [] g = "insurance" -> IF rec.insurance THEN 1 ELSE 0
      [] g = "encounters" -> Len(rec.encounters)

GroupIndex(g) == CHOOSE r \in 1..Len(GroupOrder) : GroupOrder[r] = g

\* the first step of the r-th block or, when it is empty, of a later one
RECURSIVE FirstFrom(_, _)
FirstFrom(rec, r) ==
    IF r > Len(GroupOrder) THEN Done
    ELSE IF Count(rec, GroupOrder[r]) > 0 THEN At(GroupOrder[r], 1)
    ELSE FirstFrom(rec, r + 1)

\* variant of AfterCreate: without the early return
AfterCreateAlways(rec, p) == FirstFrom(rec, 1)

\* if not pid: return None
AfterCreate(rec, p) == IF ~Truthy(p) THEN Done ELSE FirstFrom(rec, 1)

\* variant of AfterItem: the record is given up when a submitter returns False
AfterItemStopOnFailure(rec, at, ret) ==
    IF ~ret THEN Done
    ELSE IF at.i < Count(rec, at.grp) THEN At(at.grp, at.i + 1)
    ELSE FirstFrom(rec, GroupIndex(at.grp) + 1)

\* after emr.add_problem(...) and its like, whose return value is dropped
AfterItem(rec, at, ret) ==
    IF at.i < Count(rec, at.grp) THEN At(at.grp, at.i + 1)
    ELSE FirstFrom(rec, GroupIndex(at.grp) + 1)

NextEncounter(rec, i) ==
    IF i < Len(rec.encounters) THEN At("encounters", i + 1) ELSE Done

AfterLabs(rec, i, ret) == NextEncounter(rec, i)

AfterVitals(rec, i, ret) ==
    IF rec.encounters[i].labs THEN At("labs", i) ELSE NextEncounter(rec, i)

\* variant of AfterEncounter: without the test of enc_id
AfterEncounterUnguarded(rec, i, e) ==
    IF rec.encounters[i].vitals THEN At("vitals", i)
    ELSE IF rec.encounters[i].labs THEN At("labs", i)
    ELSE NextEncounter(rec, i)

\* if enc_id: if 'vitals' in enc: ...; if 'labs' in enc: ...
AfterEncounter(rec, i, e) ==
    IF Truthy(e)
    THEN IF rec.encounters[i].vitals THEN At("vitals", i)
         ELSE IF rec.encounters[i].labs THEN At("labs", i)
         ELSE NextEncounter(rec, i)
    ELSE NextEncounter(rec, i)

\* the keys the orchestrator indexes without a default: patient_data['fname'],
\* patient_data['lname'], problem['title'], med['title'], allergy['title'],
\* enc['date']
KeysPresent(rec, at) ==
    CASE at.grp = "patient" -> rec.name # ""
      [] at.grp = "problems" -> rec.problems[at.i]
      [] at.grp = "medications" -> rec.medications[at.i]
      [] at.grp = "allergies" -> rec.allergies[at.i]
      [] at.grp = "encounters" -> rec.encounters[at.i].date
      [] OTHER -> TRUE

\* variant of RecordOutcome: without the else branch
RecordSuccessOnly(res, name, p) ==
    IF Truthy(p) THEN [res EXCEPT !.success = Append(@, <<name, p>>)] ELSE res

\* the body of the main loop after import_patient_with_history returned p
RecordOutcome(res, name, p) ==
    IF Truthy(p)
    THEN [res EXCEPT !.success = Append(@, <<name, p>>)]
    ELSE [res EXCEPT !.failed = Append(@, name)]

\* variant of AfterLoad: without the check for an empty list
AfterLoadAlwaysLogin(patients) == "login"

\* if not PATIENTS: exit(1)
AfterLoad(patients) == IF patients = <<>> THEN "exit" ELSE "login"

\* variant of AfterLogin: a failed login is tried again
AfterLoginRetry(ok) == IF ok THEN "import" ELSE "login"

\* if not emr.login(): exit(1)
AfterLogin(ok) == IF ok THEN "import" ELSE "exit"

\* sum(len(p.get(g, [])) for p in PATIENTS)
RECURSIVE SumCount(_, _)
SumCount(patients, g) ==
    IF patients = <<>> THEN 0
    ELSE Count(Head(patients), g) + SumCount(Tail(patients), g)

NoTally == [printed |-> FALSE, successful |-> 0, failed |-> 0,
            problems |-> 0, medications |-> 0, encounters |-> 0]

NoStep == [n |-> 0, rec |-> 0, grp |-> "none", i |-> 0, posts |-> 0, ok |-> FALSE]

\* the call that has just finished: the n-th of record ri
Step(at, posts, ok) ==
    [n |-> (IF last.rec = ri THEN last.n ELSE 0) + 1, rec |-> ri,
     grp |-> at.grp, i |-> at.i, posts |-> posts, ok |-> ok]

Current == PATIENTS[ri]

\* ------------------------------------------------------------- lab results
\* A lab result is a dict: a function from the keys it has. A value is a
\* string or a number; str() writes a number in decimal.
Num(n) == [type |-> "int", v |-> n]
Str(s) == [type |-> "str", v |-> s]
str(x) == IF x.type = "int" THEN ToString(x.v) ELSE x.v

\* d.get(k, default)
get(d, k, default) == IF k \in DOMAIN d THEN d[k] ELSE default

Without(d, k) == [x \in DOMAIN d \ {k} |-> d[x]]

FullLab ==
    [code |-> "2345-7", description |-> "Glucose", value |-> Num(105),
     unit |-> "mg/dL", date |-> "2024-01-15", comments |-> "fasting"]

\* the lab results the lists are made of: one with every key, the same with
\* one key missing, one with a description and a textual value only
Labs ==
    {FullLab} \cup {Without(FullLab, k) : k \in DOMAIN FullLab}
              \cup {[description |-> "Hemoglobin", value |-> Str("13.5")]}

LabLists == SeqsUpTo(Labs, MaxLabs)

\* the value of the csrf_token_form field of the observation form
TokenValue == "c5rf"

\* variant of lab_fields: a key the lab result lacks is left out of the payload
lab_fields_present_only(lab) ==
    << <<"ob_type[]", "procedure_diagnostic">>,
       <<"code_type[]", "LOINC">>,
       <<"table_code[]", "">> >>
    \o (IF "code" \in DOMAIN lab THEN << <<"code[]", lab["code"]>> >> ELSE <<>>)
    \o (IF "description" \in DOMAIN lab
        THEN << <<"description[]", lab["description"]>> >> ELSE <<>>)
    \o (IF "value" \in DOMAIN lab THEN << <<"ob_value[]", str(lab["value"])>> >> ELSE <<>>)
    \o (IF "unit" \in DOMAIN lab THEN << <<"ob_unit[]", lab["unit"]>> >> ELSE <<>>)
    \o << <<"ob_value_phin[]", "">> >>
    \o (IF "date" \in DOMAIN lab THEN << <<"code_date[]", lab["date"]>> >> ELSE <<>>)
    \o << <<"code_date_end[]", "">> >>
    \o (IF "comments" \in DOMAIN lab THEN << <<"comments[]", lab["comments"]>> >> ELSE <<>>)
    \o << <<"reasonCode[]", "">>,
          <<"reasonCodeStatus[]", "completed">>,
          <<"reasonCodeText[]", "">> >>

\* the tuples form_data is extended with for one lab result
lab_fields(lab) ==
    << <<"ob_type[]", "procedure_diagnostic">>,
       <<"code_type[]", "LOINC">>,
       <<"table_code[]", "">>,
       <<"code[]", get(lab, "code", "")>>,
       <<"description[]", get(lab, "description", "")>>,
       <<"ob_value[]", str(get(lab, "value", Str("")))>>,
       <<"ob_unit[]", get(lab, "unit", "")>>,
       <<"ob_value_phin[]", "">>,
       <<"code_date[]", get(lab, "date", "")>>,
       <<"code_date_end[]", "">>,
       <<"comments[]", get(lab, "comments", "")>>,
       <<"reasonCode[]", "">>,
       <<"reasonCodeStatus[]", "completed">>,
       <<"reasonCodeText[]", "">> >>

\* form_data = [('csrf_token_form', token)]; for lab in lab_data: form_data.extend(...)
RECURSIVE lab_form_data(_, _)
lab_form_data(token, labs) ==
    IF labs = <<>> THEN << <<"csrf_token_form", token>> >>
    ELSE lab_form_data(token, SubSeq(labs, 1, Len(labs) - 1))
         \o lab_fields(labs[Len(labs)])

\* ------------------------------------------------------------- requests
\* The requests a call of a session method issues, in the order of its code:
\* the HTTP method, the page, what the URL carries (set_pid, set_encounter)
\* and what can come back.
Rq(k, p, a, ans) == [kind |-> k, page |-> p, arg |-> a, ans |-> ans]

SetPid == Rq("GET", "patient_file/summary/demographics.php", "pid", PlainResponses)
SetEncounter == Rq("GET", "patient_file/encounter/encounter_top.php", "enc", PlainResponses)

login_requests ==
    << Rq("GET", "login/login.php", "none", LoginResponses),
       Rq("POST", "main/main_screen.php", "none", LoginResponses) >>

create_patient_requests ==
    << Rq("GET", "new/new_comprehensive.php", "none", PageResponses),
       Rq("GET", "new/new_comprehensive.php", "none", PageResponses),
       Rq("POST", "new/new_comprehensive_save.php", "none", PatientSaveResponses),
       Rq("GET", "patient_file/find_interface/find_interface.php", "none", IdResponses) >>

add_medication_requests ==
    << SetPid,
       Rq("GET", "add_edit_issue.php?thistype=medication", "none", PageResponses),
       Rq("POST", "add_edit_issue.php?thistype=medication", "none", PlainResponses) >>

add_problem_requests ==
    << SetPid,
       Rq("GET", "add_edit_issue.php?thistype=medical_problem", "none", PageResponses),
       Rq("POST", "add_edit_issue.php?thistype=medical_problem", "none", PlainResponses) >>

add_allergy_requests ==
    << SetPid,
       Rq("GET", "add_edit_issue.php?thistype=allergy", "none", PageResponses),
       Rq("POST", "add_edit_issue.php?thistype=allergy", "none", PlainResponses) >>

create_encounter_requests ==
    << SetPid,
       Rq("GET", "forms/newpatient/new.php", "none", PageResponses),
       Rq("POST", "forms/newpatient/save.php", "none", IdResponses) >>

add_vitals_requests ==
    << SetPid, SetEncounter,
       Rq("GET", "forms/vitals/new.php", "none", PageResponses),
       Rq("POST", "forms/vitals/save.php", "none", PlainResponses) >>

add_lab_results_requests ==
    << SetPid, SetEncounter,
       Rq("GET", "forms/observation/new.php", "none", PageResponses),
       Rq("POST", "forms/observation/save.php", "none", PlainResponses) >>

update_history_requests ==
    << SetPid,
       Rq("GET", "patient_file/history/history_full.php", "none", PageResponses),
       Rq("POST", "patient_file/history/history_full.php", "none", PlainResponses) >>

add_insurance_requests ==
    << SetPid,
       Rq("GET", "patient_file/summary/demographics_full.php", "none", PageResponses),
       Rq("POST", "patient_file/summary/demographics_full.php", "none", PlainResponses) >>

\* the method the orchestrator calls at a step of group fn
Requests(fn) ==
    CASE fn = "login" -> login_requests
      [] fn = "patient" -> create_patient_requests
      [] fn = "problems" -> add_problem_requests
      [] fn = "medications" -> add_medication_requests
      [] fn = "allergies" -> add_allergy_requests
      [] fn = "history" -> update_history_requests
      [] fn = "insurance" -> add_insurance_requests
      [] fn = "encounters" -> create_encounter_requests
      [] fn = "vitals" -> add_vitals_requests
      [] fn = "labs" -> add_lab_results_requests

\* Whether a call goes on to its next request, given the answers (got) to
\* the requests it has issued so far; it returns when it does not.
login_goes(got) ==
    \/ Len(got) = 0
    \/ Len(got) = 1 /\ got[1].status # "exc"

create_patient_goes(got) ==
    \/ Len(got) = 0
    \/ Len(got) = 1 /\ CsrfSent(got[1])
    \/ Len(got) = 2 /\ SaveSent(got[1], got[2])
    \/ Len(got) = 3 /\ FindSent(got[1], got[2], got[3])

\* variant of submitter_goes: the form is posted whether or not a token was found
submitter_goes_without_token(got) == Len(got) < 3

\* set_active_patient, get_csrf_token and, if it returned a token, the POST
submitter_goes(got) ==
    \/ Len(got) < 2
    \/ Len(got) = 2 /\ get_csrf_token(got[2])

\* set_active_patient, set_active_encounter, the GET of the form and, if a
\* token is found in what came back, the POST
form_goes(got) ==
    \/ Len(got) < 3
    \/ Len(got) = 3 /\ got[3].token

Goes(fn, got) ==
    CASE fn = "login" -> login_goes(got)
      [] fn = "patient" -> create_patient_goes(got)
      [] fn \in {"vitals", "labs"} -> form_goes(got)
      [] OTHER -> submitter_goes(got)

\* The request whose answer the csrf_token_form value of the POST is read
\* from (0: the value is None).
\* variant of create_patient_token: the token is read off form_response
token_of_first_fetch(got) ==
    IF get_csrf_token(got[1]) THEN 1 ELSE 0

create_patient_token(got) ==
    IF get_csrf_token(got[2]) THEN 2 ELSE 0

submitter_token(got) ==
    IF get_csrf_token(got[2]) THEN 2 ELSE 0

form_token(got) ==
    IF got[3].token THEN 3 ELSE 0

csrf_token(fn, got) ==
    CASE fn = "login" -> 0
      [] fn = "patient" -> create_patient_token(got)
      [] fn \in {"vitals", "labs"} -> form_token(got)
      [] OTHER -> submitter_token(got)

\* a page view: the k-th request of the n-th call of record rec
View(rec, n, k) == [rec |-> rec, n |-> n, k |-> k]
NoView == View(0, 0, 0)

NoCall == [fn |-> "none", rec |-> 0, n |-> 0, i |-> 0, pid |-> None, enc |-> None,
           got |-> <<>>, posts |-> 0, done |-> TRUE, ok |-> FALSE, id |-> None]

NoEnc == [rec |-> 0, i |-> 0, id |-> None]

\* nothing called, nothing sent, no patient or encounter active on the server
Idle ==
    /\ call = NoCall
    /\ wire = <<>>
    /\ server = [pid |-> None, enc |-> None, new |-> [rec |-> 0, id |-> None]]
    /\ enc_made = NoEnc
    /\ submitted = [problems |-> 0, medications |-> 0, encounters |-> 0]
    /\ lab_data = <<>>
    /\ form_data = <<>>

\* ------------------------------------------------------------- actions
Init ==
    /\ file_exists \in BOOLEAN
    /\ lines \in (IF file_exists THEN MainFiles ELSE {<<>>})
    /\ pc = "start"
    /\ PATIENTS = <<>>
    /\ sessions = 0 /\ logins = 0 /\ cookie = FALSE
    /\ ri = 0 /\ pos = PatientStep /\ pid = None /\ enc_id = None
    /\ results = [success |-> <<>>, failed |-> <<>>]
    /\ assigned = <<>>
    /\ last = NoStep
    /\ tally = NoTally
    /\ exit_code = 0
    /\ Idle

\* the loader checked on its own: any file of MaxLines lines of MaxLineLen tokens
InitLoad ==
    /\ file_exists \in BOOLEAN
    /\ lines \in (IF file_exists THEN LoadFiles ELSE {<<>>})
    /\ pc = "start"
    /\ PATIENTS = <<>>
    /\ sessions = 0 /\ logins = 0 /\ cookie = FALSE
    /\ ri = 0 /\ pos = PatientStep /\ pid = None /\ enc_id = None
    /\ results = [success |-> <<>>, failed |-> <<>>]
    /\ assigned = <<>>
    /\ last = NoStep
    /\ tally = NoTally
    /\ exit_code = 0
    /\ Idle

\* __main__ up to the construction of the session
Start ==
    /\ pc = "start"
    /\ UNCHANGED ReqVars
    /\ PATIENTS' = load_patients_from_jsonl(file_exists, lines)
    /\ pc' = AfterLoad(PATIENTS')
    /\ exit_code' = IF pc' = "exit" THEN 1 ELSE exit_code
    /\ sessions' = IF pc' = "exit" THEN sessions ELSE sessions + 1
    /\ UNCHANGED <<file_exists, lines, logins, cookie, ri, pos, pid, enc_id,
                   results, assigned, last, tally>>

\* emr.login() and the start of the loop over PATIENTS
Login ==
    /\ pc = "login"
    /\ UNCHANGED ReqVars
    /\ \E r \in LoginOutcomes :
          /\ logins' = logins + 1
          /\ cookie' = r.cookie
          /\ pc' = AfterLogin(r.ret)
          /\ exit_code' = IF pc' = "exit" THEN 1 ELSE exit_code
          /\ ri' = IF pc' = "import" THEN 1 ELSE ri
    /\ UNCHANGED <<file_exists, lines, PATIENTS, sessions, pos, pid, enc_id,
                   results, assigned, last, tally>>

\* what the orchestrator does after a submitter call: go to step np, or,
\* when the record is over, return p to the main loop, which files the
\* record under success or failed and takes the next one
Proceed(np, p, e) ==
    IF np = Done
    THEN /\ results' = RecordOutcome(results, Current.name, p)
         /\ pid' = None /\ enc_id' = None
         /\ ri' = ri + 1
         /\ pos' = PatientStep
         /\ pc' = IF ri + 1 > Len(PATIENTS) THEN "summary" ELSE "import"
    ELSE /\ pos' = np /\ pid' = p /\ enc_id' = e
         /\ UNCHANGED <<results, ri, pc>>

Static == <<file_exists, lines, PATIENTS, sessions, logins, cookie, tally, exit_code>>

Ready(g) == pc = "import" /\ pos.grp = g /\ KeysPresent(Current, pos)

CreatePatient ==
    /\ Ready("patient")
    /\ UNCHANGED ReqVars
    /\ \E r \in CreatePatientOutcomes :
          /\ assigned' = Append(assigned, r.ret)
          /\ last' = Step(pos, r.posts, Truthy(r.ret))
          /\ Proceed(AfterCreate(Current, r.ret), r.ret, None)
    /\ UNCHANGED Static

AddProblem ==
    /\ Ready("problems")
    /\ UNCHANGED ReqVars
    /\ \E r \in AddProblemOutcomes :
          /\ last' = Step(pos, r.posts, r.ret)
          /\ Proceed(AfterItem(Current, pos, r.ret), pid, None)
    /\ UNCHANGED <<Static, assigned>>

AddMedication ==
    /\ Ready("medications")
    /\ UNCHANGED ReqVars
    /\ \E r \in AddMedicationOutcomes :
          /\ last' = Step(pos, r.posts, r.ret)
          /\ Proceed(AfterItem(Current, pos, r.ret), pid, None)
    /\ UNCHANGED <<Static, assigned>>

AddAllergy ==
    /\ Ready("allergies")
    /\ UNCHANGED ReqVars
    /\ \E r \in AddAllergyOutcomes :
          /\ last' = Step(pos, r.posts, r.ret)
          /\ Proceed(AfterItem(Current, pos, r.ret), pid, None)
    /\ UNCHANGED <<Static, assigned>>

UpdateHistory ==
    /\ Ready("history")
    /\ UNCHANGED ReqVars
    /\ \E r \in UpdateHistoryOutcomes :
          /\ last' = Step(pos, r.posts, r.ret)
          /\ Proceed(AfterItem(Current, pos, r.ret), pid, None)
    /\ UNCHANGED <<Static, assigned>>

AddInsurance ==
    /\ Ready("insurance")
    /\ UNCHANGED ReqVars
    /\ \E r \in AddInsuranceOutcomes :
          /\ last' = Step(pos, r.posts, r.ret)
          /\ Proceed(AfterItem(Current, pos, r.ret), pid, None)
    /\ UNCHANGED <<Static, assigned>>

CreateEncounter ==
    /\ Ready("encounters")
    /\ UNCHANGED ReqVars
    /\ \E r \in CreateEncounterOutcomes :
          /\ last' = Step(pos, r.posts, Truthy(r.ret))
          /\ Proceed(AfterEncounter(Current, pos.i, r.ret), pid, r.ret)
    /\ UNCHANGED <<Static, assigned>>

AddVitals ==
    /\ Ready("vitals")
    /\ UNCHANGED ReqVars
    /\ \E r \in AddVitalsOutcomes :
          /\ last' = Step(pos, r.posts, r.ret)
          /\ Proceed(AfterVitals(Current, pos.i, r.ret), pid, enc_id)
    /\ UNCHANGED <<Static, assigned>>

AddLabResults ==
    /\ Ready("labs")
    /\ UNCHANGED ReqVars
    /\ \E r \in AddLabResultsOutcomes :
          /\ last' = Step(pos, r.posts, r.ret)
          /\ Proceed(AfterLabs(Current, pos.i, r.ret), pid, enc_id)
    /\ UNCHANGED <<Static, assigned>>

\* a KeyError that nothing catches ends the run
Uncaught ==
    /\ pc = "import"
    /\ UNCHANGED ReqVars
    /\ ~KeysPresent(Current, pos)
    /\ pc' = "crashed"
    /\ UNCHANGED <<file_exists, lines, PATIENTS, sessions, logins, cookie, ri,
                   pos, pid, enc_id, results, assigned, last, tally, exit_code>>

\* the summary printed after the loop
Summary ==
    /\ pc = "summary"
    /\ UNCHANGED ReqVars
    /\ tally' = [printed |-> TRUE,
                 successful |-> Len(results.success),
                 failed |-> Len(results.failed),
                 problems |-> SumCount(PATIENTS, "problems"),
                 medications |-> SumCount(PATIENTS, "medications"),
                 encounters |-> SumCount(PATIENTS, "encounters")]
    /\ pc' = "done"
    /\ UNCHANGED <<file_exists, lines, PATIENTS, sessions, logins, cookie, ri,
                   pos, pid, enc_id, results, assigned, last, exit_code>>

Next ==
    \/ Start
    \/ Login
    \/ CreatePatient
    \/ AddProblem
    \/ AddMedication
    \/ AddAllergy
    \/ UpdateHistory
    \/ AddInsurance
    \/ CreateEncounter
    \/ AddVitals
    \/ AddLabResults
    \/ Uncaught
    \/ Summary

Spec == Init /\ [][Next]_vars

SpecLoad == InitLoad /\ [][Start]_vars

\* ------------------------------------------------------------- request level
\* The same run with every call of a session method taken apart into the
\* requests it sends and the answers it gets.

\* the input of the request-level run: the record with every kind of entity
\* and the one with two encounters alone, the first with a second record
\* before or after it, a record that ends the run, a line the loader skips
FileOf(ix) == [j \in 1..Len(ix) |-> <<Json(ix[j])>>]

ReqFiles ==
    { FileOf(<<3>>), FileOf(<<5>>), FileOf(<<2, 3>>), FileOf(<<3, 2>>),
      FileOf(<<3, 5>>), FileOf(<<1>>), <<<<Junk>>>> \o FileOf(<<6>>) }

InitReq ==
    /\ file_exists = TRUE
    /\ lines \in ReqFiles
    /\ pc = "start"
    /\ PATIENTS = <<>>
    /\ sessions = 0 /\ logins = 0 /\ cookie = FALSE
    /\ ri = 0 /\ pos = PatientStep /\ pid = None /\ enc_id = None
    /\ results = [success |-> <<>>, failed |-> <<>>]
    /\ assigned = <<>>
    /\ last = NoStep
    /\ tally = NoTally
    /\ exit_code = 0
    /\ Idle

\* variant of Blocking: a request is sent without waiting for the answer to
\* the one before
NonBlocking(w) == TRUE

\* session.get and session.post return with the response or raise: nothing
\* is sent while a request is out
Blocking(w) == w = <<>>

\* What the server makes of a request it answers with r. set_pid and
\* set_encounter take effect when answered with 200. A save of the patient
\* form answered with 200 and no 'ERROR:' has created the patient the body
\* names or, when the body names none, may have created one.
Served(rq, r) ==
    CASE rq.page = SetPid.page ->
           {IF r.status = "200" THEN [server EXCEPT !.pid = rq.arg] ELSE server}
      [] rq.page = SetEncounter.page ->
           {IF r.status = "200" THEN [server EXCEPT !.enc = rq.arg] ELSE server}
      [] rq.page = create_patient_requests[3].page ->
           {[server EXCEPT !.new = [rec |-> rq.rec, id |-> c]] :
              c \in IF r.status = "200" /\ ~r.error
                    THEN (IF Truthy(r.id) THEN {r.id} ELSE {None} \cup 1..MaxId)
                    ELSE {None}}
      [] OTHER -> {server}

\* import_patient_with_history or __main__ calls the next session method
BeginCall ==
    /\ call.done
    /\ \/ pc = "login"
       \/ pc = "import" /\ KeysPresent(Current, pos)
    /\ call' = [fn |-> IF pc = "login" THEN "login" ELSE pos.grp,
                rec |-> ri,
                n |-> (IF last.rec = ri THEN last.n ELSE 0) + 1,
                i |-> IF pc = "login" THEN 0 ELSE pos.i,
                pid |-> pid, enc |-> enc_id,
                got |-> <<>>, posts |-> 0, done |-> FALSE, ok |-> FALSE, id |-> None]
    /\ UNCHANGED <<Static, ri, pos, pid, enc_id, results, assigned, last, pc,
                   wire, server, enc_made, submitted, lab_data, form_data>>

\* the call issues its next request
Send ==
    /\ ~call.done
    /\ Goes(call.fn, call.got)
    /\ Blocking(wire)
    /\ LET k == Len(call.got) + 1
           rq == Requests(call.fn)[k]
           t == IF rq.kind = "POST" THEN csrf_token(call.fn, call.got) ELSE 0
       IN /\ wire' = Append(wire,
                 [kind |-> rq.kind, page |-> rq.page, ans |-> rq.ans,
                  arg |-> CASE rq.arg = "pid" -> call.pid
                            [] rq.arg = "enc" -> call.enc
                            [] OTHER -> None,
                  token |-> IF t = 0 THEN NoView ELSE View(call.rec, call.n, t),
                  fn |-> call.fn, rec |-> call.rec, n |-> call.n, k |-> k])
          /\ call' = [call EXCEPT !.posts = @ + IF rq.kind = "POST" THEN 1 ELSE 0]
    /\ UNCHANGED <<Static, ri, pos, pid, enc_id, results, assigned, last, pc,
                   server, enc_made, submitted, lab_data, form_data>>

\* the request that is out comes back with a response or an exception
Receive ==
    /\ wire # <<>>
    /\ \E r \in Head(wire).ans : call' = [call EXCEPT !.got = Append(@, r)]
    /\ wire' = Tail(wire)
    /\ UNCHANGED <<Static, ri, pos, pid, enc_id, results, assigned, last, pc,
                   server, enc_made, submitted, lab_data, form_data>>

\* the same, with the server's side of it
ReceiveServed ==
    /\ wire # <<>>
    /\ \E r \in Head(wire).ans :
          /\ call' = [call EXCEPT !.got = Append(@, r)]
          /\ server' \in Served(Head(wire), r)
    /\ wire' = Tail(wire)
    /\ UNCHANGED <<Static, ri, pos, pid, enc_id, results, assigned, last, pc,
                   enc_made, submitted, lab_data, form_data>>

\* the answer to the k-th request of the call, NotSent if it was not issued
Answer(k) == IF k <= Len(call.got) THEN call.got[k] ELSE NotSent

Returning(fns) ==
    /\ ~call.done
    /\ wire = <<>>
    /\ call.fn \in fns
    /\ ~Goes(call.fn, call.got)

Finished(ok, id) == [call EXCEPT !.done = TRUE, !.ok = ok, !.id = id]

ReturnLogin ==
    /\ Returning({"login"})
    /\ LET r == login(call.got[1],
                      IF Len(call.got) > 1 THEN call.got[2] ELSE LoginResp("none", FALSE))
       IN /\ logins' = logins + 1
          /\ cookie' = r.cookie
          /\ pc' = AfterLogin(r.ret)
          /\ exit_code' = IF pc' = "exit" THEN 1 ELSE exit_code
          /\ ri' = IF pc' = "import" THEN 1 ELSE ri
          /\ call' = Finished(r.ret, None)
    /\ UNCHANGED <<file_exists, lines, PATIENTS, sessions, pos, pid, enc_id,
                   results, assigned, last, tally, wire, server, enc_made,
                   submitted, lab_data, form_data>>

ReturnPatient ==
    /\ Returning({"patient"})
    /\ LET r == create_patient(Answer(1), Answer(2), Answer(3), Answer(4))
       IN /\ assigned' = Append(assigned, r.ret)
          /\ last' = Step(pos, r.posts, Truthy(r.ret))
          /\ Proceed(AfterCreate(Current, r.ret), r.ret, None)
          /\ call' = Finished(Truthy(r.ret), r.ret)
    /\ UNCHANGED <<Static, wire, server, enc_made, submitted, lab_data, form_data>>

\* the submissions seen to succeed (the "Added ..." lines of the output)
Added(sub, g, ok) ==
    IF ok /\ g \in DOMAIN sub THEN [sub EXCEPT ![g] = @ + 1] ELSE sub

\* what the submitter called at a step of group fn returns
ItemResult(fn) ==
    CASE fn = "problems" -> add_problem(Answer(1), Answer(2), Answer(3))
      [] fn = "medications" -> add_medication(Answer(1), Answer(2), Answer(3))
      [] fn = "allergies" -> add_allergy(Answer(1), Answer(2), Answer(3))
      [] fn = "history" -> update_history(Answer(1), Answer(2), Answer(3))
      [] fn = "insurance" -> add_insurance(Answer(1), Answer(2), Answer(3))

ItemReturns ==
    /\ Returning({"problems", "medications", "allergies", "history", "insurance"})
    /\ LET r == ItemResult(call.fn)
       IN /\ last' = Step(pos, r.posts, r.ret)
          /\ Proceed(AfterItem(Current, pos, r.ret), pid, None)
          /\ call' = Finished(r.ret, None)
    /\ UNCHANGED <<Static, assigned, wire, server, enc_made, lab_data, form_data>>

ReturnItem == ItemReturns /\ UNCHANGED submitted

\* the same, with the count of the submissions seen to succeed
ReturnItemCounted ==
    ItemReturns /\ submitted' = Added(submitted, call.fn, ItemResult(call.fn).ret)

EncounterReturns ==
    /\ Returning({"encounters"})
    /\ LET r == create_encounter(Answer(1), Answer(2), Answer(3))
           np == AfterEncounter(Current, pos.i, r.ret)
       IN /\ last' = Step(pos, r.posts, Truthy(r.ret))
          /\ Proceed(np, pid, r.ret)
          /\ enc_made' = IF np = Done THEN NoEnc
                         ELSE [rec |-> ri, i |-> pos.i, id |-> r.ret]
          /\ call' = Finished(Truthy(r.ret), r.ret)
    /\ UNCHANGED <<Static, assigned, wire, server, lab_data, form_data>>

ReturnEncounter == EncounterReturns /\ UNCHANGED submitted

\* the same, with the count of the submissions seen to succeed
ReturnEncounterCounted ==
    EncounterReturns /\ submitted' = Added(submitted, call.fn, call'.ok)

ReturnVitals ==
    /\ Returning({"vitals"})
    /\ LET r == add_vitals(Answer(1), Answer(2), Answer(3), Answer(4))
           np == AfterVitals(Current, pos.i, r.ret)
       IN /\ last' = Step(pos, r.posts, r.ret)
          /\ Proceed(np, pid, enc_id)
          /\ enc_made' = IF np = Done THEN NoEnc ELSE enc_made
          /\ call' = Finished(r.ret, None)
    /\ UNCHANGED <<Static, assigned, wire, server, submitted, lab_data, form_data>>

ReturnLabs ==
    /\ Returning({"labs"})
    /\ LET r == add_lab_results(Answer(1), Answer(2), Answer(3), Answer(4))
           np == AfterLabs(Current, pos.i, r.ret)
       IN /\ last' = Step(pos, r.posts, r.ret)
          /\ Proceed(np, pid, enc_id)
          /\ enc_made' = IF np = Done THEN NoEnc ELSE enc_made
          /\ call' = Finished(r.ret, None)
    /\ UNCHANGED <<Static, assigned, wire, server, submitted, lab_data, form_data>>

NextReq ==
    \/ Start
    \/ BeginCall
    \/ Send
    \/ Receive
    \/ ReturnLogin
    \/ ReturnPatient
    \/ ReturnItem
    \/ ReturnEncounter
    \/ ReturnVitals
    \/ ReturnLabs
    \/ Uncaught
    \/ Summary

SpecReq == InitReq /\ [][NextReq]_vars

\* the request-level run together with what the server holds and with the
\* count of the submissions seen to succeed
NextServed ==
    \/ Start
    \/ BeginCall
    \/ Send
    \/ ReceiveServed
    \/ ReturnLogin
    \/ ReturnPatient
    \/ ReturnItemCounted
    \/ ReturnEncounterCounted
    \/ ReturnVitals
    \/ ReturnLabs
    \/ Uncaught
    \/ Summary

SpecServed == InitReq /\ [][NextServed]_vars

\* ------------------------------------------------------------- lab results alone
\* add_lab_results called with any list of up to MaxLabs lab results
InitLabs ==
    /\ file_exists = TRUE
    /\ lines = <<>>
    /\ pc = "start"
    /\ PATIENTS = <<>>
    /\ sessions = 0 /\ logins = 0 /\ cookie = FALSE
    /\ ri = 0 /\ pos = PatientStep /\ pid = None /\ enc_id = None
    /\ results = [success |-> <<>>, failed |-> <<>>]
    /\ assigned = <<>>
    /\ last = NoStep
    /\ tally = NoTally
    /\ exit_code = 0
    /\ call = NoCall
    /\ wire = <<>>
    /\ server = [pid |-> None, enc |-> None, new |-> [rec |-> 0, id |-> None]]
    /\ enc_made = NoEnc
    /\ submitted = [problems |-> 0, medications |-> 0, encounters |-> 0]
    /\ lab_data \in LabLists
    /\ form_data = <<>>

\* one call of add_lab_results, from its first request to its return
PostLabResults ==
    /\ call = NoCall
    /\ \E sap \in PlainResponses, sae \in PlainResponses, page \in PageResponses :
          \E post \in PostsAfter(page.token) :
             LET r == add_lab_results(sap, sae, page, post)
             IN /\ call' = [NoCall EXCEPT
                               !.fn = "labs",
                               !.got = <<sap, sae, page>>
                                       \o (IF r.posts > 0 THEN <<post>> ELSE <<>>),
                               !.posts = r.posts,
                               !.ok = r.ret]
                /\ form_data' = IF r.posts > 0
                                THEN lab_form_data(TokenValue, lab_data)
                                ELSE <<>>
    /\ UNCHANGED <<Static, ri, pos, pid, enc_id, results, assigned, last, pc,
                   wire, server, enc_made, submitted, lab_data>>

SpecLabs == InitLabs /\ [][PostLabResults]_vars

\* ------------------------------------------------------------- properties
\* What the claims are stated with. None of it is used by the actions.

\* a line that holds one JSON literal and white space around it
WellFormed(line) ==
    \E k \in 1..Len(line) :
        /\ line[k].t = "json"
        /\ \A j \in 1..Len(line) : j # k => line[j] = WS

ValueOf(line) == Catalogue[line[CHOOSE k \in 1..Len(line) : line[k].t = "json"].v]

Blank(line) == \A j \in 1..Len(line) : line[j] = WS

\* the j-th smallest member of a set of numbers
Nth(S, j) == CHOOSE k \in S : Cardinality({m \in S : m < k}) = j - 1

GoodLines == {k \in 1..Len(lines) : WellFormed(lines[k])}

\* the steps the input calls for, in the order of the workflow
ItemSteps(g, n) == [j \in 1..n |-> At(g, j)]

RECURSIVE EncounterSteps(_, _)
EncounterSteps(encs, i) ==
    IF i > Len(encs) THEN <<>>
    ELSE <<At("encounters", i)>>
         \o (IF encs[i].vitals THEN <<At("vitals", i)>> ELSE <<>>)
         \o (IF encs[i].labs THEN <<At("labs", i)>> ELSE <<>>)
         \o EncounterSteps(encs, i + 1)

Plan(rec) ==
    <<PatientStep>>
    \o ItemSteps("problems", Len(rec.problems))
    \o ItemSteps("medications", Len(rec.medications))
    \o ItemSteps("allergies", Len(rec.allergies))
    \o (IF rec.history THEN <<At("history", 1)>> ELSE <<>>)
    \o (IF rec.insurance THEN <<At("insurance", 1)>> ELSE <<>>)
    \o EncounterSteps(rec.encounters, 1)

InPlan(plan, at) == \E k \in 1..Len(plan) : plan[k] = at
IndexIn(plan, at) == CHOOSE k \in 1..Len(plan) : plan[k] = at

\* the step after the k-th that is not a vitals or labs step of encounter i
RECURSIVE NextNotOf(_, _, _)
NextNotOf(plan, k, i) ==
    IF k >= Len(plan) THEN Done
    ELSE IF plan[k + 1] \in {At("vitals", i), At("labs", i)}
         THEN NextNotOf(plan, k + 1, i)
         ELSE plan[k + 1]

PlanNext(plan, at) ==
    IF IndexIn(plan, at) < Len(plan) THEN plan[IndexIn(plan, at) + 1] ELSE Done

LastAt == At(last.grp, last.i)
LastRec == PATIENTS[last.rec]
SubEntityStep == last.grp \notin {"none", "patient"}
FailedSubStep == SubEntityStep /\ ~last.ok

\* the step the orchestrator is at in the record of the last call
Upcoming == IF last.rec = ri THEN pos ELSE Done

\* C1: if create_patient yields no identifier for a record, no problem,
\* medication, allergy, history, insurance, encounter, vitals or lab request
\* is issued for it, its import returns no identifier (the record is filed
\* under failed) and the main loop is at the next record.
C1_CreationFailureSkipsRecord ==
    /\ SubEntityStep => Truthy(assigned[last.rec])
    /\ (last.grp = "patient" /\ ~last.ok) =>
          /\ ~Truthy(assigned[last.rec])
          /\ ri = last.rec + 1
          /\ pos = PatientStep
          /\ results.failed # <<>>
          /\ results.failed[Len(results.failed)] = LastRec.name
          /\ (pc = "import" => ri <= Len(PATIENTS))

C1_Witness ==
    /\ last.grp = "patient" /\ ~last.ok
    /\ Len(Plan(LastRec)) > 1
    /\ pc = "import"

\* C2 as stated: whenever a step other than patient creation fails, the
\* orchestrator goes on to the next step the input calls for.
C2_EveryLaterStepAttempted ==
    FailedSubStep => Upcoming = PlanNext(Plan(LastRec), LastAt)

\* C2 as amended: whenever a step other than patient creation fails, the
\* orchestrator goes on to the next step the input calls for, except that
\* after a failed encounter creation the vitals and the labs of that
\* encounter are skipped.
C2_FailureDoesNotStopLaterSteps ==
    FailedSubStep =>
        Upcoming = IF last.grp = "encounters"
                   THEN NextNotOf(Plan(LastRec), IndexIn(Plan(LastRec), LastAt), last.i)
                   ELSE PlanNext(Plan(LastRec), LastAt)

C2_Witness ==
    /\ FailedSubStep
    /\ last.grp = "encounters"
    /\ LastRec.encounters[last.i].labs
    /\ last.rec = ri
    /\ pos = At("encounters", last.i + 1)

\* the place of a step in the fixed order of the workflow
GroupRank(g) ==
    CASE g = "patient" -> 0
      [] g = "problems" -> 1
      [] g = "medications" -> 2
      [] g = "allergies" -> 3
      [] g = "history" -> 4
      [] g = "insurance" -> 5
      [] OTHER -> 6

SubRank(g) == CASE g = "vitals" -> 1 [] g = "labs" -> 2 [] OTHER -> 0

Before(a, b) ==
    \/ a.rec < b.rec
    \/ /\ a.rec = b.rec
       /\ \/ GroupRank(a.grp) < GroupRank(b.grp)
          \/ /\ GroupRank(a.grp) = GroupRank(b.grp)
             /\ \/ a.i < b.i
                \/ a.i = b.i /\ SubRank(a.grp) < SubRank(b.grp)

\* C3: every submitter call comes after the previous one in the fixed order:
\* records in file order and, in a record, patient creation, the problems,
\* the medications, the allergies, history, insurance, then each encounter
\* in input order with its creation, its vitals and its labs.
C3_FixedOrder == [][last' # last => Before(last, last')]_vars

C3_Witness ==
    /\ last.rec = 2
    /\ last.grp = "labs"
    /\ LastRec.history /\ LastRec.insurance
    /\ LastRec.problems # <<>> /\ LastRec.medications # <<>>
    /\ last.n = Len(Plan(LastRec))

\* C4: login is performed once, on the one session of the run, before any
\* patient or sub-entity request, and never again.
C4_LoginOnce ==
    /\ logins <= 1
    /\ sessions <= 1
    /\ last # NoStep => logins = 1 /\ sessions = 1

C4_Witness ==
    /\ logins = 1
    /\ last.rec = 2
    /\ ~Truthy(assigned[1])
    /\ FailedSubStep

\* C5: when the login attempt does not yield an authenticated session, no
\* form request is issued for any record and no tally is produced.
C5_FailedLoginAborts ==
    (logins >= 1 /\ ~cookie) => (last = NoStep /\ ~tally.printed)

\* C6: when the input file is missing or yields no records, the loader
\* returns an empty list and the run ends with exit status 1 with no session
\* created, no login and no request issued.
C6_NoRecordsAborts ==
    (pc # "start" /\ (~file_exists \/ GoodLines = {})) =>
        /\ PATIENTS = <<>>
        /\ pc = "exit"
        /\ exit_code = 1
        /\ sessions = 0 /\ logins = 0
        /\ last = NoStep

C6_Witness ==
    /\ pc = "exit"
    /\ file_exists
    /\ Len(lines) = 2
    /\ lines[1] = <<Junk>>
    /\ Blank(lines[2])

\* C7: the loader returns exactly the values of the well-formed lines, in
\* file order, whatever blank or malformed lines stand between them.
C7_LoaderKeepsWellFormedLines ==
    (pc # "start" /\ file_exists) =>
        /\ Len(PATIENTS) = Cardinality(GoodLines)
        /\ \A j \in 1..Len(PATIENTS) :
              PATIENTS[j] = ValueOf(lines[Nth(GoodLines, j)])

C7_Witness ==
    /\ pc # "start"
    /\ Len(lines) = 2
    /\ ~Blank(lines[1]) /\ ~WellFormed(lines[1])
    /\ WellFormed(lines[2]) /\ Len(lines[2]) = 2
    /\ Len(PATIENTS) = 1

\* C8: with every line of the file a well-formed JSON object, no failure is
\* fatal after the login: the run does not end before the tally.
C8_NoFatalFailure ==
    (\A k \in 1..Len(lines) : WellFormed(lines[k])) => pc # "crashed"

\* the records the main loop is done with
Processed ==
    IF pc \in {"import", "crashed"} THEN ri - 1
    ELSE IF pc \in {"summary", "done"} THEN Len(PATIENTS)
    ELSE 0

Created == {r \in 1..Processed : Truthy(assigned[r])}
NotCreated == {r \in 1..Processed : ~Truthy(assigned[r])}

\* C9: after k records the success and failed lists hold k entries between
\* them: the records create_patient gave an identifier, with it, in success,
\* the others in failed; the tally's counts add up to the loaded records.
C9_OutcomeRecordedOnce ==
    /\ Len(results.success) + Len(results.failed) = Processed
    /\ Len(results.success) = Cardinality(Created)
    /\ \A j \in 1..Len(results.success) :
          results.success[j] =
              <<PATIENTS[Nth(Created, j)].name, assigned[Nth(Created, j)]>>
    /\ \A j \in 1..Len(results.failed) :
          results.failed[j] = PATIENTS[Nth(NotCreated, j)].name
    /\ tally.printed => tally.successful + tally.failed = Len(PATIENTS)

C9_Witness ==
    /\ tally.printed
    /\ Len(results.success) = 1
    /\ Len(results.failed) = 1
    /\ FailedSubStep

\* C10: every submitter call issues at most one form POST, for an entity no
\* earlier call was about, and is one of the submissions of the workflow.
C10_NoRetries ==
    [][last' # last =>
          /\ last'.posts <= 1
          /\ InPlan(Plan(PATIENTS[last'.rec]), At(last'.grp, last'.i))
          /\ \/ last'.rec > last.rec
             \/ /\ last'.rec = last.rec
                /\ IndexIn(Plan(LastRec), At(last'.grp, last'.i))
                      > IndexIn(Plan(LastRec), LastAt)]_vars

C10_Witness ==
    /\ last.grp = "problems"
    /\ last.posts = 1 /\ ~last.ok
    /\ pos.grp = "medications"

\* the requests that are out
OnWire == {wire[j] : j \in 1..Len(wire)}

\* the form POSTs that are out, the login POST left aside
FormPosts == {q \in OnWire : q.kind = "POST" /\ q.fn # "login"}

\* the records the main loop has filed under success or failed
Filed == Len(results.success) + Len(results.failed)

\* C11: at most one request is out at any moment; it is the next request of
\* the call in progress, sent after every earlier request of that call was
\* answered; a request of a record is out only when every earlier record is
\* filed, this one is not, and the call before it has returned.
C11_OneRequestAtATime ==
    /\ Len(wire) <= 1
    /\ \A q \in OnWire :
          /\ ~call.done
          /\ q.rec = call.rec /\ q.n = call.n
          /\ q.k = Len(call.got) + 1
          /\ q.fn # "login" =>
                /\ q.rec = ri
                /\ Filed = q.rec - 1
                /\ q.n = (IF last.rec = q.rec THEN last.n ELSE 0) + 1

C11_Witness ==
    \E q \in OnWire : q.rec = 2 /\ q.kind = "POST" /\ q.fn = "problems"

\* the page that serves the form a step submits
FormPage(fn) ==
    CASE fn = "patient" -> "new/new_comprehensive.php"
      [] fn = "problems" -> "add_edit_issue.php?thistype=medical_problem"
      [] fn = "medications" -> "add_edit_issue.php?thistype=medication"
      [] fn = "allergies" -> "add_edit_issue.php?thistype=allergy"
      [] fn = "history" -> "patient_file/history/history_full.php"
      [] fn = "insurance" -> "patient_file/summary/demographics_full.php"
      [] fn = "encounters" -> "forms/newpatient/new.php"
      [] fn = "vitals" -> "forms/vitals/new.php"
      [] fn = "labs" -> "forms/observation/new.php"

\* the fetches of its form page the call in progress got an answer to
FormFetches ==
    {k \in 1..Len(call.got) :
        /\ Requests(call.fn)[k].kind = "GET"
        /\ Requests(call.fn)[k].page = FormPage(call.fn)
        /\ call.got[k].status # "exc"}

\* C12: a form POST other than the login POST carries a token; the token is
\* the one held by the markup of the form's own page as an earlier request of
\* the same call fetched it; a call that saw no token in its form page
\* returns without a POST, reporting failure (no identifier, False).
C12_TokenFromOwnForm ==
    /\ \A q \in FormPosts :
          /\ q.token # NoView
          /\ q.token.rec = q.rec /\ q.token.n = q.n
          /\ q.token.k \in FormFetches
          /\ call.got[q.token.k].token
    /\ (/\ call.done /\ call.fn \notin {"none", "login"}
        /\ \A k \in FormFetches : ~call.got[k].token) =>
          /\ call.posts = 0
          /\ ~call.ok
          /\ call.id = None

C12_Witness ==
    \E q \in FormPosts : q.fn = "insurance" /\ q.token # NoView

\* C13: the token of a form POST is the one of the latest view of the form
\* page, a view of the same call, and the POST is the only one of that call:
\* no view's token is posted twice and no later view of the page precedes
\* the POST.
C13_TokenSingleUse ==
    \A q \in FormPosts :
        /\ q.token.rec = call.rec /\ q.token.n = call.n
        /\ q.token.k \in FormFetches
        /\ \A k \in FormFetches : k <= q.token.k
        /\ call.posts = 1

C13_Witness ==
    \E q \in FormPosts :
        /\ q.fn = "patient"
        /\ get_csrf_token(call.got[1])
        /\ q.token.k = 2

\* the patient the server created on the save POST of the call, if any
CreatedByCall == IF server.new.rec = call.rec THEN server.new.id ELSE None

\* C14: create_patient returns the identifier of the patient the server
\* created on this call's save, and None when it created none.
C14_ReturnsTheCreatedPatient ==
    (call.fn = "patient" /\ call.done) => call.id = CreatedByCall

\* C15: create_encounter returns an identifier only when its save POST was
\* answered with 200 and an identifier in the body, that identifier; it
\* returns None when there is no token (no POST then), when the POST fails,
\* is answered otherwise than with 200, or with no identifier in the body.
C15_EncounterIdOnlyFromSave ==
    (call.fn = "encounters" /\ call.done) =>
        LET sent == Len(call.got) = 3
            post == call.got[3]
        IN /\ call.id # None =>
                 /\ sent /\ post.status = "200" /\ post.id # None
                 /\ call.id = post.id
           /\ (~sent \/ post.status # "200" \/ post.id = None) =>
                 call.id = None /\ ~call.ok
           /\ (\A k \in FormFetches : ~call.got[k].token) => ~sent
           /\ sent <=> call.posts = 1

C15_Witness ==
    /\ call.fn = "encounters" /\ call.done
    /\ Truthy(call.id)
    /\ call.got[1].status = "exc"

\* C17: a vitals or labs call is made for an encounter only after the
\* creation of that encounter returned an identifier, and it is called with
\* that identifier, which its set_encounter request carries; after a
\* creation that returned none the next call is the creation of the next
\* encounter of the record, if there is one.
C17_VitalsAndLabsUseTheEncounter ==
    /\ (~call.done /\ call.fn \in {"vitals", "labs"}) =>
          /\ enc_made.rec = call.rec /\ enc_made.i = call.i
          /\ Truthy(enc_made.id)
          /\ call.enc = enc_made.id
    /\ \A q \in OnWire :
          q.page = SetEncounter.page =>
              q.arg = enc_made.id /\ Truthy(q.arg)
    /\ (last.grp = "encounters" /\ ~last.ok) =>
          /\ Upcoming = NextEncounter(LastRec, last.i)
          /\ (~call.done /\ call.rec = last.rec) =>
                call.fn = "encounters" /\ call.i = last.i + 1

C17_Witness ==
    \E q \in OnWire :
        /\ q.fn = "labs" /\ q.kind = "POST"
        /\ PATIENTS[q.rec].encounters[call.i].vitals
        /\ q.rec = 2

\* C18: the counts printed under "Data imported" are the numbers of
\* problems, medications and encounters whose submission succeeded.
C18_TallyCountsWhatWasSubmitted ==
    tally.printed =>
        /\ tally.problems = submitted.problems
        /\ tally.medications = submitted.medications
        /\ tally.encounters = submitted.encounters

\* the calls of the sub-entity submitters that have returned
SubmitterReturned ==
    /\ call.done
    /\ call.fn \in {"problems", "medications", "allergies", "history",
                    "insurance", "vitals", "labs"}

PostIndex == Len(Requests(call.fn))
PostAnswered == Len(call.got) = PostIndex
NoTokenSeen == \A k \in FormFetches : ~call.got[k].token

C20_PostsForTheActivePatient ==
    \A q \in FormPosts :
        q.fn # "patient" => server.pid = assigned[q.rec]

\* the payload the claim describes for the list labs: the token entry, then
\* for each lab result in input order a group of 14 entries with the names of
\* the first group, the six that carry data holding the lab's value, or the
\* empty string where the lab has none
Sent(lab, k) ==
    IF k \notin DOMAIN lab THEN ""
    ELSE IF k = "value" /\ lab[k].type = "int" THEN ToString(lab[k].v)
    ELSE IF k = "value" THEN lab[k].v
    ELSE lab[k]

DataFields ==
    [code |-> "code[]", description |-> "description[]", value |-> "ob_value[]",
     unit |-> "ob_unit[]", date |-> "code_date[]", comments |-> "comments[]"]

GroupOf(fd, j) == SubSeq(fd, 2 + 14 * (j - 1), 1 + 14 * j)

LabPayloadShape(fd, labs) ==
    /\ Len(fd) = 1 + 14 * Len(labs)
    /\ fd[1] = <<"csrf_token_form", TokenValue>>
    /\ \A j \in 1..Len(labs) :
          /\ \A f \in 1..14 : GroupOf(fd, j)[f][1] = GroupOf(fd, 1)[f][1]
          /\ \A f, g \in 1..14 : f # g => GroupOf(fd, j)[f][1] # GroupOf(fd, j)[g][1]
          /\ \A k \in DOMAIN DataFields :
                \E f \in 1..14 : GroupOf(fd, j)[f] = <<DataFields[k], Sent(labs[j], k)>>

LabsReturned == call.fn = "labs" /\ call.done

\* C16 as stated: add_lab_results issues exactly one POST, whose payload is
\* the token entry followed by one group of the same 14 fields per lab
\* result, in input order, with the lab's code, description, value, unit,
\* date and comments, the empty string for those it lacks.
C16_OnePostOfAllLabs ==
    LabsReturned =>
        /\ call.posts = 1
        /\ LabPayloadShape(form_data, lab_data)

\* C16 as amended: add_lab_results issues at most one POST, and one exactly
\* when the observation form was fetched and holds a token; the payload of
\* that POST is as stated.
C16_OnePostOfAllLabsGivenToken ==
    LabsReturned =>
        /\ call.posts <= 1
        /\ call.posts = 1 <=> call.got[3].token
        /\ call.posts = 1 => LabPayloadShape(form_data, lab_data)

C16_Witness ==
    /\ LabsReturned
    /\ call.posts = 1
    /\ Len(lab_data) = 2
    /\ lab_data[1] = Without(FullLab, "unit")
    /\ lab_data[2] = FullLab

\* C21: when the vitals or the lab results form is posted, the encounter
\* active in the server's session is the one whose identifier the submitter
\* was called with.
C21_PostsForTheActiveEncounter ==
    \A q \in FormPosts :
        q.fn \in {"vitals", "labs"} => server.enc = call.enc

\* C22: the token of a form POST was read off a fetch of the form page that
\* was answered with 200; a call whose fetches of its form page were all
\* answered otherwise returns without a POST, reporting failure.
C22_NoTokenFromNon200Page ==
    /\ \A q \in FormPosts :
          q.token # NoView => call.got[q.token.k].status = "200"
    /\ (/\ call.done /\ call.fn \notin {"none", "login"}
        /\ \A k \in FormFetches : call.got[k].status # "200") =>
          /\ call.posts = 0
          /\ ~call.ok

====
